---- MODULE Spec2Model ----
(***************************************************************************)
(* Model of pipedream_solver/nutils.py: the sampler interpolate_sample,    *)
(* the root finders newton_raphson and bounded_newton_raphson, and the     *)
(* Kalman update _kalman_semi_implicit.                                    *)
(*                                                                         *)
(* Floating-point values are modelled as exact rationals <<n, d>> in       *)
(* lowest terms with d > 0; the callables f and df are modelled by the     *)
(* values they have returned so far (a function is pure, so a point that   *)
(* is evaluated again returns the same value), every new evaluation being  *)
(* a free choice among FVals / DfVals.                                     *)
(***************************************************************************)
EXTENDS Integers, Sequences, FiniteSets, TLC

(* ------------------------------ bounds -------------------------------- *)
\* supplied x0, x_lb, x_ub range over the integers 0..MaxPoint
MaxPoint == 2
\* max_iter ranges over 0..MaxIter
MaxIter == 2
\* a grid xp has 1..MaxN points
MaxN == 3
\* grid values range over the integers 0..MaxGrid
MaxGrid == 2
\* a table fp has 1..MaxCols columns
MaxCols == 1
\* the state dimension M of the Kalman update ranges over 1..MaxDim
MaxDim == 2

(* ------------------------- rational arithmetic ------------------------ *)
Abs(n) == IF n < 0 THEN -n ELSE n

RECURSIVE GCD(_, _)
GCD(a, b) == IF b = 0 THEN a ELSE GCD(b, a % b)

\* the rational n/d (d # 0) in lowest terms with a positive denominator
Norm(n, d) ==
    LET s == IF d < 0 THEN -1 ELSE 1
        g == GCD(Abs(n), Abs(d))
    IN  <<(s * n) \div g, (s * d) \div g>>

RInt(n) == <<n, 1>>
RAdd(a, b) == Norm(a[1] * b[2] + b[1] * a[2], a[2] * b[2])
RSub(a, b) == Norm(a[1] * b[2] - b[1] * a[2], a[2] * b[2])
RMul(a, b) == Norm(a[1] * b[1], a[2] * b[2])
RDiv(a, b) == Norm(a[1] * b[2], a[2] * b[1])
RAbs(a) == <<Abs(a[1]), a[2]>>
RLt(a, b) == a[1] * b[2] < b[1] * a[2]
RLe(a, b) == a[1] * b[2] <= b[1] * a[2]
RZero == RInt(0)
RHalf == Norm(1, 2)

(* ----------------------------- the callables -------------------------- *)
\* values a call of f may return
FVals == {RInt(-1), RInt(0), RInt(1)}
\* values a call of df may return
DfVals == {RInt(-1), RInt(0), RInt(2)}

\* every way of extending the evaluations m of a callable to the points S
Ext(m, S, Vals) ==
    {m @@ g : g \in [S \ DOMAIN m -> Vals]}

Points == {RInt(i) : i \in 0..MaxPoint}
\* tolerances a caller may pass as atol
Atols == {Norm(1, 2), RInt(1)}

VARIABLES
    pc,        \* position of the call: start, loop, returned, failed
    f, df,     \* the evaluations of f and df made so far (point -> value)
    x0, lb0, ub0, max_iter, atol,   \* the arguments as supplied
    x, x_lb, x_ub, dx, fx, dfx,     \* the locals of bounded_newton_raphson
    it,        \* number of completed passes of the for loop
    branch,    \* step taken by the last pass: none, bisect, newton
    result,    \* the returned value (none until a return)
    err,       \* the raised error (none until a raise)
    first,     \* outcome of an earlier call with the bounds the other way round
    rtol,      \* the argument rtol of the root finders
    p0,        \* the local p0 of newton_raphson
    args       \* the arguments of a call of interpolate_sample or
               \* _kalman_semi_implicit

vars == <<pc, f, df, x0, lb0, ub0, max_iter, atol, x, x_lb, x_ub, dx, fx, dfx,
          it, branch, result, err, first, rtol, p0, args>>

None == <<0, 0>>
Empty == [p \in {} |-> RZero]
NoCall == <<"none">>
NoArgs == [none |-> TRUE]
\* the variables bounded_newton_raphson never touches
notBNR == <<rtol, p0, args>>

(* ----------------------- bounded_newton_raphson ----------------------- *)
\* mutant of Reorder: the bounds are never exchanged
Reorder_Never(lb, ub, fm) == <<lb, ub>>

\* line 111-112: the bounds after the reorder
Reorder(lb, ub, fm) ==
    IF RLt(fm[ub], fm[lb]) THEN <<ub, lb>> ELSE <<lb, ub>>

Midpoint(lb, ub) == RMul(RAdd(lb, ub), RHalf)

\* line 114-115: the starting iterate
StartX(x00, lb, ub) ==
    IF RLt(x00, lb) \/ RLt(ub, x00) THEN Midpoint(lb, ub) ELSE x00

\* mutant of Cond0: fx enters guard A with the wrong sign
Cond0_WrongSign(xx, lb, ub, fxx, dfxx) ==
    RLe(RZero, RMul(RAdd(RMul(RSub(xx, ub), dfxx), fxx),
                    RAdd(RMul(RSub(xx, lb), dfxx), fxx)))

\* mutant of Cond0: guard A compares with > instead of >=
Cond0_Strict(xx, lb, ub, fxx, dfxx) ==
    RLt(RZero, RMul(RSub(RMul(RSub(xx, ub), dfxx), fxx),
                    RSub(RMul(RSub(xx, lb), dfxx), fxx)))

\* line 123: guard A
Cond0(xx, lb, ub, fxx, dfxx) ==
    RLe(RZero, RMul(RSub(RMul(RSub(xx, ub), dfxx), fxx),
                    RSub(RMul(RSub(xx, lb), dfxx), fxx)))

\* line 124: guard B
Cond1(fxx, dxx, dfxx) ==
    RLt(RAbs(RMul(dxx, dfxx)), RAbs(RMul(RInt(2), fxx)))

\* line 125
UseBisection(xx, lb, ub, dxx, fxx, dfxx) ==
    Cond0(xx, lb, ub, fxx, dfxx) \/ Cond1(fxx, dxx, dfxx)

\* line 126-127
BisectDx(lb, ub) == RMul(RHalf, RSub(ub, lb))
BisectX(lb, ub) == RAdd(lb, BisectDx(lb, ub))

\* line 130-131 (dfxx # 0)
NewtonDx(fxx, dfxx) == RDiv(fxx, dfxx)
NewtonX(xx, fxx, dfxx) == RSub(xx, NewtonDx(fxx, dfxx))

\* mutant of Converged: the step is compared with <= instead of <
Converged_Inclusive(dxx, tol) == RLe(RAbs(dxx), tol)

\* line 133
Converged(dxx, tol) == RLt(RAbs(dxx), tol)

\* mutant of MovesLower: fx is compared with <= instead of <
MovesLower_Inclusive(fxx) == RLe(fxx, RZero)

\* line 138: the new evaluation replaces the lower bound
MovesLower(fxx) == RLt(fxx, RZero)

BNR_Init ==
    /\ pc = "start"
    /\ f = Empty /\ df = Empty
    /\ x0 \in Points /\ lb0 \in Points /\ ub0 \in Points
    /\ max_iter \in 0..MaxIter
    /\ atol \in Atols
    /\ x = x0 /\ x_lb = lb0 /\ x_ub = ub0
    /\ dx = None /\ fx = None /\ dfx = None
    /\ it = 0 /\ branch = "none" /\ result = None /\ err = "none"
    /\ first = NoCall
    /\ rtol = RZero /\ p0 = None /\ args = NoArgs

\* lines 108-120
BNR_Setup ==
    /\ pc = "start"
    /\ \E fm \in Ext(f, {x_lb, x_ub}, FVals) :
         LET b == Reorder(x_lb, x_ub, fm)
             sx == StartX(x, b[1], b[2])
         IN  \E fm2 \in Ext(fm, {sx}, FVals), dfm \in Ext(df, {sx}, DfVals) :
               /\ x_lb' = b[1]
               /\ x_ub' = b[2]
               /\ x' = sx
               /\ dx' = RAbs(RSub(b[2], b[1]))
               /\ f' = fm2
               /\ df' = dfm
               /\ fx' = fm2[sx]
               /\ dfx' = dfm[sx]
    /\ pc' = "loop"
    /\ UNCHANGED <<x0, lb0, ub0, max_iter, atol, it, branch, result, err, first>>
    /\ UNCHANGED notBNR

\* lines 122-141: one pass of the for loop
BNR_Iterate ==
    /\ pc = "loop"
    /\ it < max_iter
    /\ LET bis == UseBisection(x, x_lb, x_ub, dx, fx, dfx)
       IN  IF ~bis /\ dfx = RZero
           THEN \* line 130 divides by zero
                /\ pc' = "failed"
                /\ err' = "ZeroDivisionError"
                /\ branch' = "newton"
                /\ UNCHANGED <<f, df, x, x_lb, x_ub, dx, fx, dfx, it, result>>
           ELSE LET ndx == IF bis THEN BisectDx(x_lb, x_ub) ELSE NewtonDx(fx, dfx)
                    nx == IF bis THEN BisectX(x_lb, x_ub) ELSE NewtonX(x, fx, dfx)
                IN  /\ branch' = IF bis THEN "bisect" ELSE "newton"
                    /\ dx' = ndx
                    /\ x' = nx
                    /\ IF Converged(ndx, atol)
                       THEN /\ pc' = "returned"
                            /\ result' = nx
                            /\ UNCHANGED <<f, df, x_lb, x_ub, fx, dfx, it, err>>
                       ELSE \E fm \in Ext(f, {nx}, FVals), dfm \in Ext(df, {nx}, DfVals) :
                              /\ f' = fm
                              /\ df' = dfm
                              /\ fx' = fm[nx]
                              /\ dfx' = dfm[nx]
                              /\ IF MovesLower(fm[nx])
                                 THEN x_lb' = nx /\ UNCHANGED x_ub
                                 ELSE x_ub' = nx /\ UNCHANGED x_lb
                              /\ it' = it + 1
                              /\ UNCHANGED <<pc, result, err>>
    /\ UNCHANGED <<x0, lb0, ub0, max_iter, atol, first>>
    /\ UNCHANGED notBNR

\* line 142
BNR_Raise ==
    /\ pc = "loop"
    /\ it = max_iter
    /\ pc' = "failed"
    /\ err' = "No zero found"
    /\ UNCHANGED <<f, df, x0, lb0, ub0, max_iter, atol, x, x_lb, x_ub, dx, fx,
                   dfx, it, branch, result, first>>
    /\ UNCHANGED notBNR

BNR_Next == BNR_Setup \/ BNR_Iterate \/ BNR_Raise

SpecBNR == BNR_Init /\ [][BNR_Next]_vars

\* what a caller sees of a finished call, and the number of passes it made
Outcome == <<pc, result, err, it>>

\* after a call with x_lb = a, x_ub = b where f(b) > f(a), the caller calls
\* again with the same f, df, x0, max_iter and atol and with the reversed
\* bracket x_lb = b, x_ub = a (lines 79-80: the arguments of the new call)
BNR_CallReversed ==
    /\ pc \in {"returned", "failed"}
    /\ first = NoCall
    /\ RLt(f[lb0], f[ub0])
    /\ rtol = RZero /\ p0 = None /\ args = NoArgs
    /\ first' = Outcome
    /\ lb0' = ub0 /\ ub0' = lb0
    /\ x' = x0 /\ x_lb' = ub0 /\ x_ub' = lb0
    /\ dx' = None /\ fx' = None /\ dfx' = None
    /\ it' = 0 /\ branch' = "none" /\ result' = None /\ err' = "none"
    /\ pc' = "start"
    /\ UNCHANGED <<f, df, x0, max_iter, atol>>
    /\ UNCHANGED notBNR

Rev_Next == BNR_Setup \/ BNR_Iterate \/ BNR_Raise \/ BNR_CallReversed

SpecRev == BNR_Init /\ [][Rev_Next]_vars

(* ------------------ claims on bounded_newton_raphson ------------------ *)
\* v lies in the closed interval spanned by a and b, in either order
Between(v, a, b) ==
    \/ RLe(a, v) /\ RLe(v, b)
    \/ RLe(b, v) /\ RLe(v, a)

WidthOf(lb, ub) == RAbs(RSub(ub, lb))

\* a pass of the for loop has just been executed by this step
Stepped == pc = "loop" /\ it < max_iter /\ (pc' # pc \/ it' # it)

\* C1: every iterate produced by a pass of the loop (bisection or Newton)
\* lies in the closed interval between the bounds the pass started from and
\* between the bounds after the bracket update, and the bracket width
\* |x_ub - x_lb| does not increase over the pass.
C1_BracketProperty ==
    [][Stepped =>
          /\ Between(x', x_lb, x_ub)
          /\ Between(x', x_lb', x_ub')
          /\ RLe(WidthOf(x_lb', x_ub'), WidthOf(x_lb, x_ub))]_vars

\* a second pass took a Newton step strictly inside a bracket that has shrunk
C1_Witness ==
    /\ pc = "loop" /\ it >= 2 /\ branch = "newton"
    /\ RLt(WidthOf(x_lb, x_ub), WidthOf(lb0, ub0))
    /\ x \notin {lb0, ub0}

\* C7 (as claimed): the starting iterate is x0 whenever x0 lies in the closed
\* interval spanned by the supplied bounds, and the midpoint otherwise.
C7_StartIsGuessWhenInside ==
    (pc = "loop" /\ it = 0) =>
        x = (IF Between(x0, lb0, ub0) THEN x0 ELSE Midpoint(lb0, ub0))

\* the outcome of a call, as far as one state shows it
C8_State ==
    /\ it <= max_iter
    /\ pc \in {"start", "loop", "returned", "failed"}
    /\ (pc \in {"start", "loop"} => result = None /\ err = "none")
    /\ (pc = "returned" =>
          /\ RLt(RAbs(dx), atol) /\ result = x
          /\ it < max_iter /\ err = "none")
    /\ (pc = "failed" =>
          it = max_iter /\ err = "No zero found" /\ result = None)

\* C8: a call makes at most max_iter passes and ends in exactly one of two
\* ways: it returns the post-step x from the first pass whose step has
\* |dx| < atol, f and df not being evaluated again, or it raises
\* 'No zero found' after max_iter passes that all had |dx| >= atol. While
\* it <= max_iter holds in the loop either another pass or the raise is due,
\* and every pass that does not return counts towards max_iter.
C8_Outcome ==
    [][/\ C8_State
       /\ C8_State'
       /\ Stepped =>
            IF RLt(RAbs(dx'), atol)
            THEN pc' = "returned" /\ it' = it /\ f' = f /\ df' = df
            ELSE pc' = "loop" /\ it' = it + 1
       /\ (pc = "loop" /\ it = max_iter) => (pc' = "failed")
       /\ (pc \in {"returned", "failed"}) => (vars' = vars)]_vars

\* C4: when f(b) > f(a), the call with x_lb = b, x_ub = a ends as the call
\* with x_lb = a, x_ub = b does: the same returned root or the same error,
\* after the same number of passes.
C4_ReversedBracketSameOutcome ==
    (/\ first # NoCall
     /\ pc \in {"returned", "failed"}
     /\ RLt(f[ub0], f[lb0])) => Outcome = first

\* a reversed call on distinct bounds that returned after at least one more pass
C4_Witness ==
    /\ first # NoCall /\ pc = "returned" /\ it >= 1
    /\ RLt(f[ub0], f[lb0]) /\ lb0 # ub0
    /\ Outcome = first

\* a return from the last allowed pass, after a pass that did not converge
C8_WitnessReturn ==
    pc = "returned" /\ it >= 1 /\ it = max_iter - 1 /\ result = x

\* C9: a pass that starts with dfx = 0 has guard A true and takes the
\* bisection step, so that fx / dfx is never computed with dfx = 0.
C9_NoZeroDivision ==
    [][Stepped /\ dfx = RZero =>
          /\ RLe(RZero, RMul(RSub(RMul(RSub(x, x_ub), dfx), fx),
                             RSub(RMul(RSub(x, x_lb), dfx), fx)))
          /\ branch' = "bisect"
          /\ err' = "none"
          /\ dx' = RMul(RHalf, RSub(x_ub, x_lb))]_vars

\* a pass has bisected from a point where both f and df were zero
C9_Witness ==
    /\ pc = "loop" /\ it >= 1 /\ branch = "bisect"
    /\ \E p \in DOMAIN df : df[p] = RZero /\ f[p] = RZero /\ p # x

SignChange == RLt(f[x_lb], RZero) /\ RLe(RZero, f[x_ub])

\* C10: once f(x_lb) < 0 <= f(x_ub) holds of the bounds (after the initial
\* reorder), it holds of the bounds after every bracket update.
C10_SignChangeKept ==
    [][pc = "loop" /\ SignChange => SignChange']_vars

\* both bounds have been replaced and the sign change is still bracketed
C10_Witness ==
    /\ pc = "loop" /\ it >= 2 /\ SignChange
    /\ x_lb \notin {lb0, ub0} /\ x_ub \notin {lb0, ub0}

(* ------------------------- interpolate_sample ------------------------- *)
\* line 23: np.searchsorted(xp, x), side 'left': the binary search for the
\* first 0-based index whose grid value is >= x (n when there is none)
RECURSIVE BinarySearch(_, _, _, _)
BinarySearch(xp, xq, lo, hi) ==
    IF lo >= hi THEN lo
    ELSE LET mid == lo + ((hi - lo) \div 2)
         IN  IF RLt(xp[mid + 1], xq)
             THEN BinarySearch(xp, xq, mid + 1, hi)
             ELSE BinarySearch(xp, xq, lo, mid)

SearchSorted(xp, xq) == BinarySearch(xp, xq, 0, Len(xp))

\* line 32
Frac(dx_0, dx_1) == RDiv(dx_0, RAdd(dx_0, dx_1))

\* mutant of LinearRow: the two weights are exchanged
LinearRow_Swapped(frac, r0, r1) ==
    [j \in 1..Len(r0) |->
        RAdd(RMul(frac, r0[j]), RMul(RSub(RInt(1), frac), r1[j]))]

\* line 33: (1 - frac) * fp[ix - 1] + frac * fp[ix], element by element
LinearRow(frac, r0, r1) ==
    [j \in 1..Len(r0) |->
        RAdd(RMul(RSub(RInt(1), frac), r0[j]), RMul(frac, r1[j]))]

\* mutant of LeftIsNearest: a tie goes to the right neighbour
LeftIsNearest_Strict(dx_0, dx_1) == RLt(RAbs(dx_0), RAbs(dx_1))

\* line 35: the left neighbour is the nearest
LeftIsNearest(dx_0, dx_1) == RLe(RAbs(dx_0), RAbs(dx_1))

\* lines 21-39; the 0-based fp[k] of the source is fp[k + 1] here
InterpolateSample(xq, xp, fp, method) ==
    LET n == Len(xp)
        ix == SearchSorted(xp, xq)
    IN  IF ix = 0 THEN fp[1]
        ELSE IF ix >= n THEN fp[n]
        ELSE LET dx_0 == RSub(xq, xp[ix])
                 dx_1 == RSub(xp[ix + 1], xq)
             IN  IF method = 1
                 THEN LinearRow(Frac(dx_0, dx_1), fp[ix], fp[ix + 1])
                 ELSE IF LeftIsNearest(dx_0, dx_1) THEN fp[ix] ELSE fp[ix + 1]

GridVals == {RInt(i) : i \in 0..MaxGrid}
\* the sorted (non-decreasing) grids of n points
Grids(n) ==
    {g \in [1..n -> GridVals] : \A i \in 1..(n - 1) : RLe(g[i], g[i + 1])}
\* entries of the table fp
FpVals == {RInt(0), RInt(2)}
Tables(n, m) == [1..n -> [1..m -> FpVals]]
\* the points of evaluation: every multiple of 1/2 from -1/2 to MaxGrid + 1/2
Queries == {Norm(k, 2) : k \in (-1)..(2 * MaxGrid + 1)}

InterpArgs ==
    UNION {UNION {[x : Queries, xp : Grids(n), fp : Tables(n, m), method : {0, 1}]
                  : m \in 1..MaxCols} : n \in 1..MaxN}

\* the variables only the root finders use
rootVars == <<f, df, x0, lb0, ub0, max_iter, atol, x, x_lb, x_ub, dx, fx, dfx,
              it, branch, first, rtol, p0>>
RootIdle ==
    /\ f = Empty /\ df = Empty
    /\ x0 = None /\ lb0 = None /\ ub0 = None /\ max_iter = 0 /\ atol = None
    /\ x = None /\ x_lb = None /\ x_ub = None
    /\ dx = None /\ fx = None /\ dfx = None
    /\ it = 0 /\ branch = "none" /\ first = NoCall /\ rtol = None /\ p0 = None

Interp_Init ==
    /\ pc = "start"
    /\ args \in InterpArgs
    /\ result = None /\ err = "none"
    /\ RootIdle

\* lines 6-39: the call
Interp_Call ==
    /\ pc = "start"
    /\ result' = InterpolateSample(args.x, args.xp, args.fp, args.method)
    /\ pc' = "returned"
    /\ UNCHANGED <<args, err>>
    /\ UNCHANGED rootVars

SpecInterp == Interp_Init /\ [][Interp_Call]_vars

(* --------------------------- newton_raphson --------------------------- *)
\* mutant of ExactRoot: the test for an exact root is missing
ExactRoot_Never(fxx) == FALSE

\* line 67
ExactRoot(fxx) == fxx = RZero
\* line 70
ZeroDerivative(dfxx) == dfxx = RZero
\* line 72
NewtonPoint(pp, fxx, dfxx) == RSub(pp, RDiv(fxx, dfxx))
\* line 73
WithinTol(p, pp, tol, rel) ==
    RLe(RAbs(RSub(p, pp)), RAdd(tol, RMul(rel, RAbs(pp))))

\* relative tolerances a caller may pass as rtol
Rtols == {RZero, Norm(1, 2)}

NR_Init ==
    /\ pc = "start"
    /\ f = Empty /\ df = Empty
    /\ x0 \in Points
    /\ max_iter \in 0..MaxIter
    /\ atol \in Atols
    /\ rtol \in Rtols
    /\ p0 = None /\ fx = None /\ dfx = None
    /\ it = 0 /\ result = None /\ err = "none"
    /\ lb0 = None /\ ub0 = None /\ x = None /\ x_lb = None /\ x_ub = None
    /\ dx = None /\ branch = "none" /\ first = NoCall /\ args = NoArgs

\* the variables newton_raphson never touches
notNR == <<x0, max_iter, atol, rtol, lb0, ub0, x, x_lb, x_ub, dx, branch,
           first, args>>

\* line 64
NR_Start ==
    /\ pc = "start"
    /\ p0' = RMul(RInt(1), x0)
    /\ pc' = "loop"
    /\ UNCHANGED <<f, df, fx, dfx, it, result, err>>
    /\ UNCHANGED notNR

\* lines 65-75: one pass of the for loop
NR_Iterate ==
    /\ pc = "loop"
    /\ it < max_iter
    /\ \E fm \in Ext(f, {p0}, FVals) :
         /\ f' = fm
         /\ fx' = fm[p0]
         /\ IF ExactRoot(fm[p0])
            THEN /\ pc' = "returned"
                 /\ result' = p0
                 /\ UNCHANGED <<df, dfx, p0, it, err>>
            ELSE \E dfm \in Ext(df, {p0}, DfVals) :
                   /\ df' = dfm
                   /\ dfx' = dfm[p0]
                   /\ IF ZeroDerivative(dfm[p0])
                      THEN /\ pc' = "failed"
                           /\ err' = "Derivative is zero"
                           /\ UNCHANGED <<p0, it, result>>
                      ELSE LET p == NewtonPoint(p0, fm[p0], dfm[p0])
                           IN  IF WithinTol(p, p0, atol, rtol)
                               THEN /\ pc' = "returned"
                                    /\ result' = p
                                    /\ UNCHANGED <<p0, it, err>>
                               ELSE /\ p0' = p
                                    /\ it' = it + 1
                                    /\ UNCHANGED <<pc, result, err>>
    /\ UNCHANGED notNR

\* line 76
NR_Raise ==
    /\ pc = "loop"
    /\ it = max_iter
    /\ pc' = "failed"
    /\ err' = "No solution found"
    /\ UNCHANGED <<f, df, fx, dfx, p0, it, result>>
    /\ UNCHANGED notNR

NR_Next == NR_Start \/ NR_Iterate \/ NR_Raise

SpecNR == NR_Init /\ [][NR_Next]_vars

(* -------------- claims on interpolate_sample, newton_raphson ---------- *)
\* the number of grid values strictly below x: the insertion index of x
InsertionIndex == Cardinality({j \in 1..Len(args.xp) : RLt(args.xp[j], args.x)})

\* C2 (as claimed): evaluated at a grid value xp[i] with method=1, the
\* result is the row fp[i], for every grid index i.
C2_GridValuesReproduced ==
    (pc = "returned" /\ args.method = 1) =>
        \A i \in 1..Len(args.xp) : args.xp[i] = args.x => result = args.fp[i]

\* C2 (amended): evaluated at a grid value xp[i] with method=1, the result
\* is the row fp[j] of the first index j whose grid value equals xp[i]; it
\* is fp[i] whenever no earlier grid value equals xp[i].
C2_FirstEqualGridValueReproduced ==
    (pc = "returned" /\ args.method = 1) =>
        \A i \in 1..Len(args.xp) : args.xp[i] = args.x =>
            LET j == CHOOSE k \in 1..i :
                       /\ args.xp[k] = args.xp[i]
                       /\ \A l \in 1..(k - 1) : args.xp[l] # args.xp[i]
            IN  result = args.fp[j]

\* the linear branch was evaluated at a grid value that occurs twice, with
\* different rows, and returned the row of its first occurrence
C2_Witness ==
    /\ pc = "returned" /\ args.method = 1 /\ Len(args.xp) = 3
    /\ RLt(args.xp[1], args.xp[2]) /\ args.xp[2] = args.xp[3]
    /\ args.x = args.xp[3]
    /\ args.fp[1] # args.fp[2] /\ args.fp[3] # args.fp[2]
    /\ result = args.fp[2]

\* C5: with method=0 the result is one row of fp: fp[0] left of the grid
\* (ix = 0), fp[n-1] right of it (ix = n), and inside (0 < ix < n) the row
\* fp[ix-1] when |x - xp[ix-1]| <= |xp[ix] - x| and fp[ix] otherwise.
C5_NearestRow ==
    (pc = "returned" /\ args.method = 0) =>
        LET n == Len(args.xp)
            ix == InsertionIndex
        IN  /\ \E i \in 1..n : result = args.fp[i]
            /\ ix = 0 => result = args.fp[1]
            /\ ix = n => result = args.fp[n]
            /\ (0 < ix /\ ix < n) =>
                 result = (IF RLe(RAbs(RSub(args.x, args.xp[ix])),
                                  RAbs(RSub(args.xp[ix + 1], args.x)))
                           THEN args.fp[ix] ELSE args.fp[ix + 1])

\* a tie between two neighbours with different rows went to the left one
C5_Witness ==
    /\ pc = "returned" /\ args.method = 0
    /\ 0 < InsertionIndex /\ InsertionIndex < Len(args.xp)
    /\ RSub(args.x, args.xp[InsertionIndex])
         = RSub(args.xp[InsertionIndex + 1], args.x)
    /\ args.fp[InsertionIndex] # args.fp[InsertionIndex + 1]
    /\ result = args.fp[InsertionIndex]

\* every value df has returned is zero
DfIsZero == \A p \in DOMAIN df : df[p] = RZero

\* C3 (as claimed): with df identically zero and max_iter >= 1 the call
\* fails with 'Derivative is zero' in the first pass, whatever f and x0 are,
\* and returns no value.
C3_ZeroDerivativeAlwaysFails ==
    (pc \in {"returned", "failed"} /\ max_iter >= 1 /\ DfIsZero) =>
        pc = "failed" /\ err = "Derivative is zero" /\ it = 0 /\ result = None

\* C3 (amended): with df identically zero and max_iter >= 1 the call ends in
\* the first pass: it returns x0 when f(x0) = 0 (df is then not evaluated),
\* and fails with 'Derivative is zero', returning no value, otherwise.
C3_ZeroDerivativeFailsUnlessExactRoot ==
    (pc \in {"returned", "failed"} /\ max_iter >= 1 /\ DfIsZero) =>
        /\ it = 0
        /\ IF f[x0] = RZero
           THEN pc = "returned" /\ result = x0 /\ err = "none" /\ df = Empty
           ELSE pc = "failed" /\ err = "Derivative is zero" /\ result = None
                /\ df = (x0 :> RZero)

\* the first pass met f(x0) # 0 and a zero derivative and raised
C3_Witness ==
    /\ pc = "failed" /\ err = "Derivative is zero" /\ it = 0
    /\ f[x0] # RZero /\ df = (x0 :> RZero)

(* ------------------------ _kalman_semi_implicit ----------------------- *)
\* a matrix is a sequence of rows of rationals; a vector is an M x 1 matrix
RECURSIVE RSum(_, _)
RSum(s, k) == IF k = 0 THEN RZero ELSE RAdd(RSum(s, k - 1), s[k])

\* the function fn, evaluated once and for all (TLC would otherwise evaluate
\* an entry of a matrix expression again at every use)
Strict(fn) == fn @@ <<>>

\* the n x m matrix of the entries E(i, j)
Matrix(n, m, E) ==
    Strict([i \in 1..n |-> Strict([j \in 1..m |-> E[i, j]])])

\* line 187: np.eye
Eye(n) ==
    Matrix(n, n, [i \in 1..n, j \in 1..n |-> IF i = j THEN RInt(1) ELSE RZero])

\* the operator @
MatMul(A, B) ==
    Matrix(Len(A), Len(B[1]), [i \in 1..Len(A), j \in 1..Len(B[1]) |->
        RSum([k \in 1..Len(B) |-> RMul(A[i][k], B[k][j])], Len(B))])

MatAdd(A, B) ==
    Matrix(Len(A), Len(A[1]),
           [i \in 1..Len(A), j \in 1..Len(A[1]) |-> RAdd(A[i][j], B[i][j])])

MatSub(A, B) ==
    Matrix(Len(A), Len(A[1]),
           [i \in 1..Len(A), j \in 1..Len(A[1]) |-> RSub(A[i][j], B[i][j])])

\* the attribute .T
Transpose(A) ==
    Matrix(Len(A[1]), Len(A), [i \in 1..Len(A[1]), j \in 1..Len(A) |-> A[j][i]])

\* A without row i and column j
Minor(A, i, j) ==
    Matrix(Len(A) - 1, Len(A) - 1,
           [r \in 1..(Len(A) - 1), c \in 1..(Len(A) - 1) |->
               A[IF r < i THEN r ELSE r + 1][IF c < j THEN c ELSE c + 1]])

RECURSIVE Det(_)
Det(A) ==
    IF Len(A) = 1 THEN A[1][1]
    ELSE RSum([j \in 1..Len(A) |->
                  RMul(RMul(RInt(IF j % 2 = 1 THEN 1 ELSE -1), A[1][j]),
                       Det(Minor(A, 1, j)))], Len(A))

\* np.linalg.inv raises LinAlgError on a singular matrix
Singular(A) == Det(A) = RZero

\* np.linalg.inv of a matrix that is not singular
Inv(A) ==
    IF Len(A) = 1 THEN <<<<RDiv(RInt(1), A[1][1])>>>>
    ELSE LET d == Det(A)
         IN  Matrix(Len(A), Len(A), [i \in 1..Len(A), j \in 1..Len(A) |->
                 RDiv(RMul(RInt(IF (i + j) % 2 = 0 THEN 1 ELSE -1),
                           Det(Minor(A, j, i))), d)])

\* line 191
PredictCov(A_1_inv, A_2, P_x_k_k, C, Qcov) ==
    MatAdd(MatMul(MatMul(MatMul(MatMul(A_1_inv, A_2), P_x_k_k),
                         Transpose(A_2)), Transpose(A_1_inv)),
           MatMul(MatMul(C, Qcov), Transpose(C)))

\* line 193 (and the matrix inverted on line 192)
InnovationCov(H, P_x_k1_k, Rcov) ==
    MatAdd(MatMul(MatMul(H, P_x_k1_k), Transpose(H)), Rcov)

\* line 192, given the inverse of the innovation covariance
Gain(P_x_k1_k, H, P_zz_inv) ==
    MatMul(MatMul(P_x_k1_k, Transpose(H)), P_zz_inv)

\* line 194
UpdateCov(L_x_k1, H, P_x_k1_k) ==
    MatMul(MatSub(Eye(Len(H)), MatMul(L_x_k1, H)), P_x_k1_k)

\* mutant of UpdateState: the innovation adds the predicted observation
UpdateState_SignSlip(x_k1_k, L_x_k1, Z_next, H) ==
    MatAdd(x_k1_k, MatMul(L_x_k1, MatAdd(Z_next, MatMul(H, x_k1_k))))

\* line 195
UpdateState(x_k1_k, L_x_k1, Z_next, H) ==
    MatAdd(x_k1_k, MatMul(L_x_k1, MatSub(Z_next, MatMul(H, x_k1_k))))

\* lines 187-197: the returned triple, or the error of a failed inversion
KalmanSemiImplicit(a) ==
    IF Singular(a.A_1) THEN [err |-> "Singular matrix"]
    ELSE LET A_1_inv == Inv(a.A_1)
             x_k1_k == MatMul(A_1_inv, a.b)
             P_x_k1_k == PredictCov(A_1_inv, a.A_2, a.P_x_k_k, a.C, a.Qcov)
             P_zz == InnovationCov(a.H, P_x_k1_k, a.Rcov)
         IN  IF Singular(P_zz) THEN [err |-> "Singular matrix"]
             ELSE LET L_x_k1 == Gain(P_x_k1_k, a.H, Inv(P_zz))
                      x_hat == UpdateState(x_k1_k, L_x_k1, a.Z_next, a.H)
                  IN  [err |-> "none",
                       b_hat |-> MatMul(a.A_1, x_hat),
                       P_x_k1_k1 |-> UpdateCov(L_x_k1, a.H, P_x_k1_k),
                       P_zz |-> P_zz]

\* k times the identity
Scaled(k, n) ==
    Matrix(n, n, [i \in 1..n, j \in 1..n |-> IF i = j THEN RInt(k) ELSE RZero])

\* the indices S in increasing order
RECURSIVE Ascending(_)
Ascending(S) ==
    IF S = {} THEN <<>>
    ELSE LET lo == CHOOSE i \in S : \A j \in S : i <= j
         IN  <<lo>> \o Ascending(S \ {lo})

\* symmetric with every principal minor >= 0
IsPSD(A) ==
    /\ A = Transpose(A)
    /\ \A S \in (SUBSET (1..Len(A))) \ {{}} :
         LET q == Ascending(S)
         IN  RLe(RZero, Det(Matrix(Len(q), Len(q),
                 [r \in 1..Len(q), c \in 1..Len(q) |-> A[q[r]][q[c]]])))

\* entries of the covariance and of the vectors a caller passes
CovVals == {RInt(0), RInt(1)}
Covariances(n) == {A \in [1..n -> [1..n -> CovVals]] : IsPSD(A)}
Vectors(n) == [1..n -> [1..1 -> CovVals]]
\* the observations passed with the right-hand side b: b itself, all zeros
\* and all ones
Observations(b) ==
    {b, [i \in 1..Len(b) |-> <<RInt(0)>>], [i \in 1..Len(b) |-> <<RInt(1)>>]}

KalmanArgs ==
    UNION {{a \in [Z_next : Vectors(n), P_x_k_k : Covariances(n),
                   A_1 : {Scaled(0, n), Scaled(1, n), Scaled(2, n)},
                   A_2 : {Scaled(1, n)}, b : Vectors(n),
                   H : {Scaled(1, n), Scaled(2, n)}, C : {Scaled(1, n)},
                   Qcov : {Scaled(0, n), Scaled(1, n)},
                   Rcov : {Scaled(0, n), Scaled(1, n)}] :
              a.Z_next \in Observations(a.b)} : n \in 1..MaxDim}

Kalman_Init ==
    /\ pc = "start"
    /\ args \in KalmanArgs
    /\ result = None /\ err = "none"
    /\ RootIdle

\* lines 161-197: the call
Kalman_Call ==
    /\ pc = "start"
    /\ LET r == KalmanSemiImplicit(args)
       IN  IF r.err = "none"
           THEN pc' = "returned" /\ result' = r /\ UNCHANGED err
           ELSE pc' = "failed" /\ err' = r.err /\ UNCHANGED result
    /\ UNCHANGED args
    /\ UNCHANGED rootVars

SpecKalman == Kalman_Init /\ [][Kalman_Call]_vars

(* -------------------- claim on _kalman_semi_implicit ------------------ *)
IdentityCase ==
    LET n == Len(args.A_1)
    IN  /\ args.A_1 = Eye(n) /\ args.A_2 = Eye(n) /\ args.H = Eye(n)
        /\ args.C = Eye(n) /\ args.Qcov = Eye(n) /\ args.Rcov = Eye(n)
        /\ args.Z_next = args.b

\* C6: with A_1 = A_2 = H = C = Qcov = Rcov = I, a positive semi-definite
\* P_x_k_k and Z_next = b, the call returns, and its b_hat equals Z_next.
C6_IdentityObservationTrusted ==
    (pc # "start" /\ IdentityCase) =>
        pc = "returned" /\ result.b_hat = args.Z_next

\* the identity case was run in dimension 2 on a covariance that is not
\* diagonal and an observation that is not zero
C6_Witness ==
    /\ pc = "returned" /\ IdentityCase /\ Len(args.A_1) = 2
    /\ args.P_x_k_k[1][2] # RZero
    /\ args.Z_next[1][1] # RZero
    /\ result.b_hat = args.Z_next

====
